---- MODULE Spec2Model ----
(***************************************************************************)
(* Model of the garden log importer (src/src/importer.py) and of the       *)
(* irrigation analyzer (src/src/analyzer.py).                              *)
(*                                                                         *)
(* Text is modelled as a sequence of atoms: a decimal digit, one of the    *)
(* symbols ":", " ", "=", ".", "-", or a word of letters (one atom per     *)
(* word).  A Python str is therefore a sequence of atoms, 'Init' is        *)
(* <<"Init">>.  A float is an exact rational [num, den] (den > 0); the     *)
(* rounding of IEEE doubles is not modelled.  Instants are integers (hours *)
(* on one common clock).                                                   *)
(***************************************************************************)
EXTENDS Integers, Sequences, FiniteSets, TLC

VARIABLES
    map_json,        \* the configuration file: [exists, content]
    data_file,       \* the log file: [exists, lines]
    garden_config,   \* Importer.garden_config
    database,        \* Importer.database, a DataFrame [columns, rows]
    logger,          \* Importer.logger: the lines reported by logger.error
    pc,              \* position of the main program
    error,           \* the exception that reached the caller, "" when none
    df,              \* IrrigationAnalyzer.df
    expanded_df,     \* IrrigationAnalyzer.expanded_df
    call,            \* arguments and clock of the last analyzer call
    compliance,      \* what the last calculate_compliance_score returned
    recommendations  \* what the last get_irrigation_recommendations returned

vars == <<map_json, data_file, garden_config, database, logger, pc, error, df,
          expanded_df, call, compliance, recommendations>>

----------------------------------------------------------------------------
(* Bounds *)

\* longest log file
MaxLines == 2

\* longest log file of the runs on measurement lines only
MaxReadings == 3

\* latest wall-clock instant at which an analyzer call is made
MaxNow == 3

----------------------------------------------------------------------------
(* Python values *)

\* the sensor_id of a line without an [id=...] group: match.group(4) is None
None == "None"

\* NaN, what Series.map gives for a key the mapping lacks
NaN == "NaN"

\* the marker stored for an initialization line
InitMarker == <<"Init">>

Digits == {"0", "1", "2", "3", "4", "5", "6", "7", "8", "9"}

DigitValue(a) ==
    CASE a = "0" -> 0 [] a = "1" -> 1 [] a = "2" -> 2 [] a = "3" -> 3
      [] a = "4" -> 4 [] a = "5" -> 5 [] a = "6" -> 6 [] a = "7" -> 7
      [] a = "8" -> 8 [] a = "9" -> 9

\* \s, \d and \w on atoms
IsSpace(a) == a = " "
IsDigit(a) == a \in Digits
IsWord(a) == a \notin {" ", ":", "=", ".", "-"}

\* exact rationals standing for Python floats
Rat(n, d) == [num |-> n, den |-> d]
RatEq(a, b) == a.num * b.den = b.num * a.den
RatLe(a, b) == a.num * b.den <= b.num * a.den
RatLt(a, b) == a.num * b.den < b.num * a.den
RECURSIVE Gcd(_, _)
Gcd(a, b) == IF b = 0 THEN a ELSE Gcd(b, a % b)

\* the same number in lowest terms (numerators are never negative here)
Lowest(r) == LET g == Gcd(r.num, r.den) IN Rat(r.num \div g, r.den \div g)

RatAdd(a, b) == Lowest(Rat(a.num * b.den + b.num * a.den, a.den * b.den))
RatDivInt(a, n) == Lowest(Rat(a.num, a.den * n))
RatMulInt(a, n) == Lowest(Rat(a.num * n, a.den))

\* a cell of the value column: a float or a str
FloatValue(r) == [isnum |-> TRUE, num |-> r.num, den |-> r.den, text |-> <<>>]
StrValue(s) == [isnum |-> FALSE, num |-> 0, den |-> 1, text |-> s]

\* Python's value != 'Init' on one cell
NotInit(v) == v.isnum \/ v.text # InitMarker

----------------------------------------------------------------------------
(* The three regular expressions of import_data *)

RECURSIVE SkipSpaces(_, _)
\* \s* from position i: the first position that holds no whitespace
SkipSpaces(s, i) ==
    IF i <= Len(s) /\ IsSpace(s[i]) THEN SkipSpaces(s, i + 1) ELSE i

RECURSIVE WordRunEnd(_, _)
\* \w+ from position i (greedy): the position after the run
WordRunEnd(s, i) ==
    IF i <= Len(s) /\ IsWord(s[i]) THEN WordRunEnd(s, i + 1) ELSE i

RECURSIVE DigitRunEnd(_, _)
\* \d+ from position i (greedy): the position after the run
DigitRunEnd(s, i) ==
    IF i <= Len(s) /\ IsDigit(s[i]) THEN DigitRunEnd(s, i + 1) ELSE i

RECURSIVE StripRight(_)
StripRight(s) ==
    IF s # <<>> /\ IsSpace(s[Len(s)]) THEN StripRight(SubSeq(s, 1, Len(s) - 1))
    ELSE s

\* line.strip(): a line starts with its head, so only the tail can lose blanks
Strip(line) == [line EXCEPT !.rest = StripRight(line.rest)]

\* The head of a line, '[<timestamp>] <level> <type>[id=<digits>]', is kept as
\* the fields ts, level, type, id.  ts.form tells how the timestamp is written:
\*   "iso"   2025-01-15 10:30:00   every pattern takes it, to_datetime parses it
\*   "loose" 20250115 10:30:00     [\d-]+ takes it, \d{4}-\d{2}-\d{2} does not
\*   "bad"   2025-13-45 10:30:00   every pattern takes it, to_datetime raises
\*   "none"  the line does not start with a bracketed timestamp
\* ts.t is the instant it names.

\* \[([\d-]+ [\d:.]+)\]\s+(\w+)\s+(\w+)(?:\[id=(\d+)\])?  (patterns 1 and 2)
HeadLoose(line) == line.ts.form \in {"iso", "loose", "bad"}

\* \[(\d{4}-\d{2}-\d{2} [\d:.]+)\]\s+(\w+)\s+(\w+)(?:\[id=(\d+)\])?  (pattern 3)
HeadStrict(line) == line.ts.form \in {"iso", "bad"}

NoMatch == [matched |-> FALSE, g5 |-> <<>>]

\* pattern 1: head, ':?', '\s+', 'Initialized sensor'
MatchInit(line) ==
    LET r == line.rest
        i == IF Len(r) >= 1 /\ r[1] = ":" THEN 2 ELSE 1
        j == SkipSpaces(r, i)
    IN  IF /\ HeadLoose(line)
           /\ j > i
           /\ Len(r) >= j + 2
           /\ r[j] = "Initialized" /\ r[j + 1] = " " /\ r[j + 2] = "sensor"
        THEN [matched |-> TRUE, g5 |-> <<>>]
        ELSE NoMatch

\* pattern 2: head, ':', '\s*', '\w+=', group 5 '\d+(?:\.\d+)?'
MatchMeasure(line) ==
    LET r == line.rest
        j == SkipSpaces(r, 2)
        k == WordRunEnd(r, j)
        d == DigitRunEnd(r, k + 1)
        f == DigitRunEnd(r, d + 1)
        e == IF d <= Len(r) /\ r[d] = "." /\ f > d + 1 THEN f ELSE d
    IN  IF /\ HeadLoose(line)
           /\ Len(r) >= 1 /\ r[1] = ":"
           /\ k > j
           /\ k <= Len(r) /\ r[k] = "="
           /\ d > k + 1
        THEN [matched |-> TRUE, g5 |-> SubSeq(r, k + 1, e - 1)]
        ELSE NoMatch

\* pattern 3: strict head, ':', '\s*', group 5 '.+'
MatchGeneric(line) ==
    LET r == line.rest
        j == SkipSpaces(r, 2)
    IN  IF /\ HeadStrict(line)
           /\ Len(r) >= 1 /\ r[1] = ":"
           /\ j <= Len(r)
        THEN [matched |-> TRUE, g5 |-> SubSeq(r, j, Len(r))]
        ELSE NoMatch

\* a to_datetime that raises on no text (errors='coerce')
ToDatetime_Coerce(ts) == [ok |-> TRUE, t |-> ts.t]

\* pd.to_datetime(match.group(1)): raises on a date that does not exist
ToDatetime(ts) == [ok |-> ts.form \in {"iso", "loose"}, t |-> ts.t]

RECURSIVE DigitsToInt(_)
DigitsToInt(s) ==
    IF s = <<>> THEN 0
    ELSE 10 * DigitsToInt(SubSeq(s, 1, Len(s) - 1)) + DigitValue(s[Len(s)])

RECURSIVE Pow10(_)
Pow10(n) == IF n = 0 THEN 1 ELSE 10 * Pow10(n - 1)

\* float(match.group(5)) of a text \d+(\.\d+)?
ToFloat(s) ==
    LET d == DigitRunEnd(s, 1)
        whole == DigitsToInt(SubSeq(s, 1, d - 1))
        frac == SubSeq(s, d + 1, Len(s))
    IN  IF d > Len(s) THEN Rat(whole, 1)
        ELSE Rat(whole * Pow10(Len(frac)) + DigitsToInt(frac), Pow10(Len(frac)))

----------------------------------------------------------------------------
(* DataFrames: a sequence of column names and a sequence of rows, each row  *)
(* a function from the column names to cells                                *)

\* an Optional cell: None is <<>>, a present value x is <<x>>
NoneCell == <<>>
Cell(x) == <<x>>

\* pd.DataFrame(columns=self.columns)
EmptyFrame(cols) == [columns |-> cols, rows |-> <<>>]

ImporterColumns == <<"timestamp", "level", "type", "sensor_id", "value">>

\* a row that stores '' for a line without an [id=...] group
NewRow_EmptyId(ts, level, type, sid, value) ==
    [timestamp |-> ts, level |-> level, type |-> type,
     sensor_id |-> IF sid = None THEN "" ELSE sid, value |-> value]

\* pd.DataFrame([[...]], columns=self.columns): the one row of it
NewRow(ts, level, type, sid, value) ==
    [timestamp |-> ts, level |-> level, type |-> type, sensor_id |-> sid,
     value |-> value]

\* pd.concat([self.database, <one row>])
Concat(frame, row) == [frame EXCEPT !.rows = Append(@, row)]

HasColumn(frame, c) == \E i \in 1..Len(frame.columns) : frame.columns[i] = c

\* frame[c] = frame[src].map(f): a new column at the end, or c overwritten
SetColumn(frame, c, F(_)) ==
    [columns |-> IF HasColumn(frame, c) THEN frame.columns
                 ELSE Append(frame.columns, c),
     rows |-> [i \in 1..Len(frame.rows) |->
                  [k \in (DOMAIN frame.rows[i]) \cup {c} |->
                      IF k = c THEN F(frame.rows[i]) ELSE frame.rows[i][k]]]]

\* frame[mask]: the rows that satisfy P, in order, the columns kept
SelectRows(frame, P(_)) == [frame EXCEPT !.rows = SelectSeq(@, P)]

----------------------------------------------------------------------------
(* Importer *)

\* {} before the configuration is loaded
EmptyDict == [k \in {} |-> None]

\* an open that never raises: a missing file reads as an empty one
OpenOk_Swallowed(file) == TRUE

\* open(path, 'r') succeeds
OpenOk(file) == file.exists

\* the try block with the generic pattern tried before the measurement pattern
ImportLine_GenericFirst(db, raw) ==
    LET line == Strip(raw)
        m1 == MatchInit(line)
        m2 == MatchMeasure(line)
        m3 == MatchGeneric(line)
        ts == ToDatetime(line.ts)
        row(v) == NewRow(ts.t, line.level, line.type, line.id, v)
    IN  IF m1.matched
        THEN IF ts.ok THEN Concat(db, row(StrValue(InitMarker))) ELSE db
        ELSE IF m3.matched
        THEN IF ts.ok THEN Concat(db, row(StrValue(m3.g5))) ELSE db
        ELSE IF m2.matched
        THEN IF ts.ok THEN Concat(db, row(FloatValue(ToFloat(m2.g5)))) ELSE db
        ELSE db

\* the body of the try block for one line (importer.py 22-49); an exception
\* of pd.to_datetime is caught at line 52 and leaves the database as it was
\* (logger.error reports its own formatting error and does not raise)
ImportLine(db, raw) ==
    LET line == Strip(raw)
        m1 == MatchInit(line)
        m2 == MatchMeasure(line)
        m3 == MatchGeneric(line)
        ts == ToDatetime(line.ts)
        row(v) == NewRow(ts.t, line.level, line.type, line.id, v)
    IN  IF m1.matched
        THEN IF ts.ok THEN Concat(db, row(StrValue(InitMarker))) ELSE db
        ELSE IF m2.matched
        THEN IF ts.ok THEN Concat(db, row(FloatValue(ToFloat(m2.g5)))) ELSE db
        ELSE IF m3.matched
        THEN IF ts.ok THEN Concat(db, row(StrValue(m3.g5))) ELSE db
        ELSE db

\* the except clause of line 52 is entered for this line: a pattern matched
\* and pd.to_datetime raised (float() of \d+(\.\d+)? never raises)
LineRaises(raw) ==
    LET line == Strip(raw)
    IN  /\ MatchInit(line).matched \/ MatchMeasure(line).matched
            \/ MatchGeneric(line).matched
        /\ ~ToDatetime(line.ts).ok

\* the lines logger.error is called with, in file order
LoggedErrors(lines) ==
    LET raised == SelectSeq(lines, LineRaises)
    IN  [i \in 1..Len(raised) |-> Strip(raised[i])]

RECURSIVE ImportLines(_, _)
\* for line in f.readlines()
ImportLines(db, lines) ==
    IF lines = <<>> THEN db
    ELSE ImportLines(ImportLine(db, Head(lines)), Tail(lines))

\* Importer.import_data
import_data ==
    /\ pc = "new"
    /\ IF ~OpenOk(map_json)
       THEN /\ pc' = "import_raised"
            /\ error' = "FileNotFoundError"
            /\ UNCHANGED <<garden_config, database, logger>>
       ELSE /\ garden_config' = map_json.content
            /\ IF ~OpenOk(data_file)
               THEN /\ pc' = "import_raised"
                    /\ error' = "FileNotFoundError"
                    /\ UNCHANGED <<database, logger>>
               ELSE /\ database' = ImportLines(database, data_file.lines)
                    /\ logger' = logger \o LoggedErrors(data_file.lines)
                    /\ pc' = "imported"
                    /\ UNCHANGED error
    /\ UNCHANGED <<map_json, data_file, df, expanded_df, call, compliance,
                   recommendations>>

\* a lookup that never finds the sensor (keys of another type than sensor_id)
SensorField_AlwaysMiss(cfg, x, field) == NoneCell

\* self.garden_config['sensors'].get(x, {}).get(field)
SensorField(cfg, x, field) ==
    IF x \in DOMAIN cfg.sensors THEN Cell(cfg.sensors[x][field]) ELSE NoneCell

\* Importer.apply_mapping
apply_mapping ==
    /\ pc = "imported"
    /\ LET named == SetColumn(database, "name",
                       LAMBDA r : SensorField(garden_config, r.sensor_id, "name"))
       IN  database' = SetColumn(named, "model",
                       LAMBDA r : SensorField(garden_config, r.sensor_id, "model"))
    /\ pc' = "mapped"
    /\ UNCHANGED <<map_json, data_file, garden_config, logger, error, df,
                   expanded_df, call, compliance, recommendations>>

----------------------------------------------------------------------------
(* IrrigationAnalyzer *)

\* 'Word' in sensor_info['name'], the name being a sequence of words
Contains(name, word) == \E i \in 1..Len(name) : name[i] = word

\* the chain with the Humidity test before the Light test
SensorKind_HumidityFirst(name) ==
    IF Contains(name, "Temperature") THEN "temperature"
    ELSE IF Contains(name, "Moisture") THEN "moisture"
    ELSE IF Contains(name, "Humidity") THEN "humidity"
    ELSE IF Contains(name, "Light") THEN "light"
    ELSE IF Contains(name, "Pump") THEN "pump"
    ELSE NaN

\* the if/elif chain of _prepare_data; a name with none of the words gets no
\* entry in sensor_type_map, and Series.map then gives NaN
SensorKind(name) ==
    IF Contains(name, "Temperature") THEN "temperature"
    ELSE IF Contains(name, "Moisture") THEN "moisture"
    ELSE IF Contains(name, "Light") THEN "light"
    ELSE IF Contains(name, "Humidity") THEN "humidity"
    ELSE IF Contains(name, "Pump") THEN "pump"
    ELSE NaN

\* self.df['sensor_id'].map(sensor_type_map) on one row
SensorTypeOf(cfg, sid) ==
    IF sid \in DOMAIN cfg.sensors THEN SensorKind(cfg.sensors[sid].name) ELSE NaN

\* self.df['sensor_id'].map(self.sensor_garden_mapping) on one row:
\* the list of the sensor, NaN for a sensor the mapping lacks
GardenIdsOf(cfg, sid) ==
    IF sid \in DOMAIN cfg.sensor_garden_mapping
    THEN [isna |-> FALSE, ids |-> cfg.sensor_garden_mapping[sid]]
    ELSE [isna |-> TRUE, ids |-> <<>>]

\* the frame shared with the importer after lines 54-58
WithKindsAndGardens(cfg, frame) ==
    LET typed == IF HasColumn(frame, "sensor_type") THEN frame
                 ELSE SetColumn(frame, "sensor_type",
                          LAMBDA r : SensorTypeOf(cfg, r.sensor_id))
    IN  SetColumn(typed, "garden_ids",
            LAMBDA r : GardenIdsOf(cfg, r.sensor_id))

\* self.df[self.df['value'] != 'Init']
RemoveInits(frame) == SelectRows(frame, LAMBDA r : NotInit(r.value))

\* an expansion that keeps only the first zone of the list
ExpandRow_FirstZoneOnly(cfg, row) ==
    IF ~row.garden_ids.isna /\ Len(row.garden_ids.ids) > 0
    THEN LET garden_id == row.garden_ids.ids[1]
         IN  <<[k \in (DOMAIN row) \cup {"garden_id", "vegetable_type", "location"} |->
                   CASE k = "garden_id" -> garden_id
                     [] k = "vegetable_type" -> cfg.gardens[garden_id].vegetable_type
                     [] k = "location" -> cfg.gardens[garden_id].location
                     [] OTHER -> row[k]]>>
    ELSE <<>>

\* the rows one row expands to (lines 64-70)
ExpandRow(cfg, row) ==
    IF ~row.garden_ids.isna /\ Len(row.garden_ids.ids) > 0
    THEN [i \in 1..Len(row.garden_ids.ids) |->
             LET garden_id == row.garden_ids.ids[i]
             IN  [k \in (DOMAIN row) \cup {"garden_id", "vegetable_type", "location"} |->
                     CASE k = "garden_id" -> garden_id
                       [] k = "vegetable_type" -> cfg.gardens[garden_id].vegetable_type
                       [] k = "location" -> cfg.gardens[garden_id].location
                       [] OTHER -> row[k]]]
    ELSE <<>>

RECURSIVE ExpandRows(_, _)
ExpandRows(cfg, rows) ==
    IF rows = <<>> THEN <<>>
    ELSE ExpandRow(cfg, Head(rows)) \o ExpandRows(cfg, Tail(rows))

\* pd.DataFrame(expanded_rows): a frame without any column when the list is empty
ExpandedFrame(cfg, frame) ==
    LET rows == ExpandRows(cfg, frame.rows)
    IN  IF rows = <<>> THEN EmptyFrame(<<>>)
        ELSE [columns |-> frame.columns \o <<"garden_id", "vegetable_type", "location">>,
              rows |-> rows]

\* IrrigationAnalyzer.__init__ and _prepare_data, on the importer's frame as
\* main.py passes it after Importer.run(); self.df is that frame itself until
\* line 60 rebinds it, so the two new columns land in Importer.database
prepare_data ==
    /\ pc = "mapped"
    /\ database' = WithKindsAndGardens(garden_config, database)
    /\ df' = RemoveInits(database')
    /\ expanded_df' = ExpandedFrame(garden_config, df')
    /\ pc' = "analyzed"
    /\ UNCHANGED <<map_json, data_file, garden_config, logger, error, call,
                   compliance, recommendations>>

\* time_window_hours=2400000
DefaultWindowHours == 2400000

\* for sensor_type in ['temperature', 'moisture', 'light', 'humidity']
KindOrder == <<"temperature", "moisture", "light", "humidity">>

RECURSIVE RatSum(_)
RatSum(s) == IF s = <<>> THEN Rat(0, 1) ELSE RatAdd(Head(s), RatSum(Tail(s)))

\* np.mean / Series.mean of a non-empty list of floats
Mean(s) == RatDivInt(RatSum(s), Len(s))

\* the rows the score is taken over (lines 94-98)
RecentData(frame, garden_id, cutoff_time) ==
    SelectRows(frame, LAMBDA r : r.garden_id = garden_id /\ r.timestamp >= cutoff_time)

\* recent_data[recent_data['sensor_type'] == sensor_type]
SensorData(recent, sensor_type) ==
    SelectRows(recent, LAMBDA r : r.sensor_type = sensor_type)

\* comparing the value column with a number raises TypeError on a str cell
CompareRaises(rows) == \E i \in 1..Len(rows) : ~rows[i].value.isnum

ValueOf(r) == Rat(r.value.num, r.value.den)

\* the selection with both comparisons strict
InRange_Strict(rows, optimal_min, optimal_max) ==
    SelectSeq(rows, LAMBDA r : /\ RatLt(Rat(optimal_min, 1), ValueOf(r))
                               /\ RatLt(ValueOf(r), Rat(optimal_max, 1)))

\* sensor_data[(value >= optimal_min) & (value <= optimal_max)]
InRange(rows, optimal_min, optimal_max) ==
    SelectSeq(rows, LAMBDA r : /\ RatLe(Rat(optimal_min, 1), ValueOf(r))
                               /\ RatLe(ValueOf(r), Rat(optimal_max, 1)))

\* len(in_range) / len(sensor_data) * 100
ComplianceScore(in_range_count, readings_count) ==
    RatMulInt(Rat(in_range_count, readings_count), 100)

\* a middle tier that starts at 50
StatusOf_From50(score) ==
    IF RatLe(Rat(80, 1), score) THEN "Good"
    ELSE IF RatLe(Rat(50, 1), score) THEN "Needs Attention"
    ELSE "Poor"

\* 'Good' if score >= 80 else 'Needs Attention' if score >= 60 else 'Poor'
StatusOf(score) ==
    IF RatLe(Rat(80, 1), score) THEN "Good"
    ELSE IF RatLe(Rat(60, 1), score) THEN "Needs Attention"
    ELSE "Poor"

\* one pass of the loop body for a kind of the profile (lines 107-134)
KindScore(recent, range, sensor_type) ==
    LET rows == SensorData(recent, sensor_type).rows
        in_range == InRange(rows, range.min, range.max)
        score == ComplianceScore(Len(in_range), Len(rows))
    IN  IF Len(rows) = 0
        THEN [raised |-> FALSE, score |-> NoneCell,
              detail |-> [status |-> "No data", avg_value |-> NoneCell]]
        ELSE IF CompareRaises(rows)
        THEN [raised |-> TRUE, score |-> NoneCell,
              detail |-> [status |-> "No data", avg_value |-> NoneCell]]
        ELSE [raised |-> FALSE, score |-> Cell(score),
              detail |-> [status |-> StatusOf(score),
                          avg_value |-> Cell(Mean([i \in 1..Len(rows) |-> ValueOf(rows[i])])),
                          optimal_min |-> range.min,
                          optimal_max |-> range.max,
                          readings_count |-> Len(rows),
                          in_range_count |-> Len(in_range)]]

\* the kinds the loop does not skip, in the order it visits them
ScoredKinds(optimal_ranges) ==
    SelectSeq(KindOrder, LAMBDA k : k \in DOMAIN optimal_ranges)

\* the list with a 0 in the place of every None
ValidScores_NoneAsZero(kinds, scores) ==
    [i \in 1..Len(kinds) |->
        IF scores[kinds[i]] # NoneCell THEN scores[kinds[i]][1] ELSE Rat(0, 1)]

\* [score for score in compliance_scores.values() if score is not None]
ValidScores(kinds, scores) ==
    LET defined == SelectSeq(kinds, LAMBDA k : scores[k] # NoneCell)
    IN  [i \in 1..Len(defined) |-> scores[defined[i]][1]]

\* np.mean(valid_scores) if valid_scores else 0
OverallScore(valid_scores) ==
    IF valid_scores # <<>> THEN Mean(valid_scores) ELSE Rat(0, 1)

NotCalled == [status |-> "none", error |-> "", result |-> EmptyDict]
Raised(e) == [status |-> "raised", error |-> e, result |-> EmptyDict]
Returned(r) == [status |-> "returned", error |-> "", result |-> r]

\* IrrigationAnalyzer.calculate_compliance_score as a function of the clock
CalculateComplianceScore(cfg, frame, garden_id, time_window_hours, now) ==
    LET vegetable_type == cfg.gardens[garden_id].vegetable_type
        optimal_ranges == cfg.vegetables[vegetable_type]
        cutoff_time == now - time_window_hours
        recent == RecentData(frame, garden_id, cutoff_time)
        kinds == ScoredKinds(optimal_ranges)
        each == [k \in {kinds[i] : i \in 1..Len(kinds)} |->
                    KindScore(recent, optimal_ranges[k], k)]
        scores == [k \in DOMAIN each |-> each[k].score]
    IN  IF ~HasColumn(frame, "garden_id") \/ ~HasColumn(frame, "timestamp")
        THEN Raised("KeyError")
        ELSE IF \E k \in DOMAIN each : each[k].raised
        THEN Raised("TypeError")
        ELSE Returned([garden_id |-> garden_id,
                       vegetable_type |-> vegetable_type,
                       overall_score |-> OverallScore(ValidScores(kinds, scores)),
                       individual_scores |-> scores,
                       details |-> [k \in DOMAIN each |-> each[k].detail],
                       timestamp |-> now])

\* a call of calculate_compliance_score by a user of the analyzer.  The calls
\* assign no attribute of the analyzer, so a run of the model makes one call:
\* a second call would start from the same analyzer and return the same.
calculate_compliance_score ==
    /\ pc = "analyzed"
    /\ \E garden_id \in DOMAIN garden_config.gardens,
          time_window_hours \in {1, DefaultWindowHours},
          now \in 0..MaxNow :
          /\ call' = [op |-> "calculate_compliance_score", garden_id |-> garden_id,
                      time_window_hours |-> time_window_hours, now |-> now]
          /\ compliance' = CalculateComplianceScore(garden_config, expanded_df,
                               garden_id, time_window_hours, now)
    /\ pc' = "called"
    /\ UNCHANGED <<map_json, data_file, garden_config, database, logger, error,
                   df, expanded_df, recommendations>>

\* one line of advice: the sensor kind it is about and what it says
Line(kind, advice) == [kind |-> kind, advice |-> advice]

\* the lines the loop body appends for one kind (lines 359-389)
KindLines(sensor_type, details) ==
    IF details.avg_value = NoneCell
    THEN <<Line(sensor_type, "no recent data")>>
    ELSE LET avg_value == details.avg_value[1]
         IN  IF RatLt(avg_value, Rat(details.optimal_min, 1))
             THEN IF sensor_type = "moisture"
                  THEN <<Line(sensor_type, "increase")>>
                  ELSE IF sensor_type = "humidity"
                  THEN <<Line(sensor_type, "increase")>>
                  ELSE IF sensor_type = "temperature"
                  THEN <<Line(sensor_type, "increase")>>
                  ELSE <<>>
             ELSE IF RatLt(Rat(details.optimal_max, 1), avg_value)
             THEN IF sensor_type = "moisture"
                  THEN <<Line(sensor_type, "decrease")>>
                  ELSE IF sensor_type = "humidity"
                  THEN <<Line(sensor_type, "decrease")>>
                  ELSE IF sensor_type = "temperature"
                  THEN <<Line(sensor_type, "decrease")>>
                  ELSE <<>>
             ELSE <<Line(sensor_type, "within optimal range")>>

RECURSIVE AllKindLines(_, _)
\* for sensor_type, details in compliance['details'].items()
AllKindLines(kinds, details) ==
    IF kinds = <<>> THEN <<>>
    ELSE KindLines(Head(kinds), details[Head(kinds)])
            \o AllKindLines(Tail(kinds), details)

\* lines 358-397 on the result of the scoring
Recommendations(result) ==
    LET kinds == SelectSeq(KindOrder, LAMBDA k : k \in DOMAIN result.details)
        lines == AllKindLines(kinds, result.details)
    IN  IF lines = <<>> THEN <<Line("all", "all within optimal ranges")>>
        ELSE lines

NoLines == [status |-> "none", error |-> "", lines |-> <<>>]

\* IrrigationAnalyzer.get_irrigation_recommendations
get_irrigation_recommendations ==
    /\ pc = "analyzed"
    /\ \E garden_id \in DOMAIN garden_config.gardens, now \in 0..MaxNow :
          LET scored == CalculateComplianceScore(garden_config, expanded_df,
                            garden_id, DefaultWindowHours, now)
          IN  /\ call' = [op |-> "get_irrigation_recommendations",
                          garden_id |-> garden_id,
                          time_window_hours |-> DefaultWindowHours, now |-> now]
              /\ compliance' = scored
              /\ recommendations' =
                    IF scored.status = "raised"
                    THEN [status |-> "raised", error |-> scored.error, lines |-> <<>>]
                    ELSE [status |-> "returned", error |-> "",
                          lines |-> Recommendations(scored.result)]
    /\ pc' = "called"
    /\ UNCHANGED <<map_json, data_file, garden_config, database, logger, error,
                   df, expanded_df>>

----------------------------------------------------------------------------
(* The files the program is run on *)

Iso(t) == [form |-> "iso", t |-> t]

\* a log line: '[<ts>] <level> <type>[id=<id>]' and the text after it.  shape
\* and payload say what the line is by the grammar of the log format (the
\* payload: the number of a measurement, the trailing text of a generic
\* line); the importer reads neither.
LogLine(ts, level, type, id, rest, shape, payload) ==
    [ts |-> ts, level |-> level, type |-> type, id |-> id, rest |-> rest,
     shape |-> shape, payload |-> payload]

Number(n, d) == FloatValue(Rat(n, d))
Text(s) == StrValue(s)
Nothing == StrValue(<<>>)

Lines ==
    { \* [2025-01-15 10:30:00] INFO TempSensor[id=1001]: Initialized sensor
      LogLine(Iso(1), "INFO", "TempSensor", "1001",
              <<":", " ", "Initialized", " ", "sensor">>, "init", Nothing),
      \* [2025-01-15 10:30:00] INFO TempSensor Initialized sensor
      LogLine(Iso(1), "INFO", "TempSensor", None,
              <<" ", "Initialized", " ", "sensor">>, "init", Nothing),
      \* [2025-01-15 11:30:15] INFO TempSensor[id=1001]: temperature=23.5
      LogLine(Iso(2), "INFO", "TempSensor", "1001",
              <<":", " ", "temperature", "=", "2", "3", ".", "5">>,
              "measurement", Number(47, 2)),
      \* [2025-01-15 11:31:15] INFO TempSensor: temperature=24.1
      LogLine(Iso(2), "INFO", "TempSensor", None,
              <<":", " ", "temperature", "=", "2", "4", ".", "1">>,
              "measurement", Number(241, 10)),
      \* [2025-01-15 10:30:45] WARNING SoilSensor[id=2001]: moisture=50
      LogLine(Iso(1), "WARNING", "SoilSensor", "2001",
              <<":", " ", "moisture", "=", "5", "0">>,
              "measurement", Number(50, 1)),
      \* [2025-01-15 11:30:45] WARNING SoilSensor[id=2001]: moisture=80
      LogLine(Iso(2), "WARNING", "SoilSensor", "2001",
              <<":", " ", "moisture", "=", "8", "0">>,
              "measurement", Number(80, 1)),
      \* [2025-01-15 12:30:45] WARNING SoilSensor[id=2001]:moisture=40.0 (and a blank)
      LogLine(Iso(3), "WARNING", "SoilSensor", "2001",
              <<":", "moisture", "=", "4", "0", ".", "0", " ">>,
              "measurement", Number(40, 1)),
      \* [2025-01-15 11:40:45] WARNING SoilSensor[id=2001]: moisture=70
      LogLine(Iso(2), "WARNING", "SoilSensor", "2001",
              <<":", " ", "moisture", "=", "7", "0">>,
              "measurement", Number(70, 1)),
      \* [2025-01-15 11:45:00] WARNING SoilSensor[id=2001]: moisture=-5
      \* (a sign is no part of <number>: a generic line)
      LogLine(Iso(2), "WARNING", "SoilSensor", "2001",
              <<":", " ", "moisture", "=", "-", "5">>,
              "generic", Text(<<"moisture", "=", "-", "5">>)),
      \* [2025-13-45 10:30:45] WARNING SoilSensor[id=2001]: moisture=45.8
      LogLine([form |-> "bad", t |-> 1], "WARNING", "SoilSensor", "2001",
              <<":", " ", "moisture", "=", "4", "5", ".", "8">>,
              "measurement", Number(229, 5)),
      \* [2025-01-15 11:31:00] INFO LightSensor[id=3001]: light=2
      LogLine(Iso(2), "INFO", "LightSensor", "3001",
              <<":", " ", "light", "=", "2">>, "measurement", Number(2, 1)),
      \* [2025-01-15 10:31:00] ERROR PumpCtrl[id=2002]: Pump failure on init
      LogLine(Iso(1), "ERROR", "PumpCtrl", "2002",
              <<":", " ", "Pump", " ", "failure", " ", "on", " ", "init">>,
              "generic", Text(<<"Pump", " ", "failure", " ", "on", " ", "init">>)),
      \* [2025-01-15 10:32:00] ERROR SoilSensor[id=2001]: Init
      LogLine(Iso(1), "ERROR", "SoilSensor", "2001", <<":", " ", "Init">>,
              "generic", Text(<<"Init">>)),
      \* [20250115 10:31:00] ERROR PumpCtrl[id=2002]: Pump failure on init
      \* (the date is not YYYY-MM-DD: no generic line)
      LogLine([form |-> "loose", t |-> 1], "ERROR", "PumpCtrl", "2002",
              <<":", " ", "Pump", " ", "failure", " ", "on", " ", "init">>,
              "none", Nothing),
      \* [2025-01-15 10:33:00] ERROR PumpCtrl: Pump failure on init
      LogLine(Iso(1), "ERROR", "PumpCtrl", None,
              <<":", " ", "Pump", " ", "failure", " ", "on", " ", "init">>,
              "generic", Text(<<"Pump", " ", "failure", " ", "on", " ", "init">>)),
      \* [2025-01-15 11:32:00] INFO Probe[id=4001]: reading=55
      LogLine(Iso(2), "INFO", "Probe", "4001",
              <<":", " ", "reading", "=", "5", "5">>,
              "measurement", Number(55, 1)),
      \* Invalid log line that should be ignored
      LogLine([form |-> "none", t |-> 0], "", "", None,
              <<"Invalid", " ", "log", " ", "line">>, "none", Nothing) }

RECURSIVE SeqsUpTo(_, _)
\* the sequences over S of length at most n
SeqsUpTo(S, n) ==
    IF n = 0 THEN {<<>>}
    ELSE LET shorter == SeqsUpTo(S, n - 1)
         IN  shorter \cup {Append(s, x) : s \in shorter, x \in S}

Sensors ==
    [s \in {"1001", "1002", "2001", "2002", "3001", "4001"} |->
        CASE s = "1001" -> [name |-> <<"Temperature", "Sensor", "1">>, model |-> "TempPro"]
          [] s = "1002" -> [name |-> <<"Humidity", "Sensor", "1">>, model |-> "HumidMax"]
          [] s = "2001" -> [name |-> <<"Soil", "Moisture", "1">>, model |-> "SoilSense"]
          [] s = "2002" -> [name |-> <<"Pump", "Controller", "1">>, model |-> "PumpCtrl"]
          [] s = "3001" -> [name |-> <<"Light", "Humidity", "Combo">>, model |-> "LuxOne"]
          [] s = "4001" -> [name |-> <<"Generic", "Probe">>, model |-> "Probe"]]

Gardens ==
    [g \in {"Z1", "Z2"} |->
        IF g = "Z1"
        THEN [name |-> "Tomato bed", location |-> "North", vegetable_type |-> "tomato",
              active |-> TRUE]
        ELSE [name |-> "Lettuce bed", location |-> "South", vegetable_type |-> "lettuce",
              active |-> TRUE]]

Range(lo, hi) == [min |-> lo, max |-> hi]

Vegetables ==
    [v \in {"tomato", "lettuce"} |->
        IF v = "tomato"
        THEN [temperature |-> Range(18, 27), moisture |-> Range(40, 70)]
        ELSE [moisture |-> Range(60, 90), light |-> Range(3, 6),
              humidity |-> Range(50, 70)]]

\* sensor_garden_mapping: a sensor in two zones, in one, in none
MappingA ==
    [s \in {"1001", "2001", "2002", "3001", "4001"} |->
        CASE s = "1001" -> <<"Z1", "Z2">>
          [] s = "2001" -> <<"Z1", "Z2">>
          [] s = "2002" -> <<"Z1">>
          [] s = "3001" -> <<"Z2">>
          [] s = "4001" -> <<"Z1">>]

\* an empty list, and a list that names a zone twice
MappingB ==
    [s \in {"1001", "2001", "3001"} |->
        CASE s = "1001" -> <<>>
          [] s = "2001" -> <<"Z1", "Z1">>
          [] s = "3001" -> <<"Z2", "Z1">>]

Config(mapping) ==
    [sensors |-> Sensors, gardens |-> Gardens, vegetables |-> Vegetables,
     sensor_garden_mapping |-> mapping]

ConfigA == Config(MappingA)

\* a configuration that does not list the pump controller among its sensors
\* and whose lettuce profile has a light range only
ConfigB ==
    [Config(MappingB) EXCEPT
        !.sensors = [s \in (DOMAIN Sensors) \ {"2002"} |-> Sensors[s]],
        !.vegetables = [@ EXCEPT !["lettuce"] = [light |-> Range(3, 6)]]]

MapFiles ==
    {[exists |-> TRUE, content |-> c] : c \in {ConfigA, ConfigB}}
        \cup {[exists |-> FALSE, content |-> EmptyDict]}

DataFiles ==
    {[exists |-> TRUE, lines |-> l] : l \in SeqsUpTo(Lines, MaxLines)}
        \cup {[exists |-> FALSE, lines |-> <<>>]}

----------------------------------------------------------------------------
(* The program: Importer(map_json, data_file), run(), then the analyzer *)

Init ==
    /\ map_json \in MapFiles
    /\ data_file \in DataFiles
    /\ garden_config = EmptyDict
    /\ database = EmptyFrame(ImporterColumns)
    /\ logger = <<>>
    /\ pc = "new"
    /\ error = ""
    /\ df = EmptyFrame(<<>>)
    /\ expanded_df = EmptyFrame(<<>>)
    /\ call = [op |-> "", garden_id |-> "", time_window_hours |-> 0, now |-> 0]
    /\ compliance = NotCalled
    /\ recommendations = NoLines

Next ==
    \/ import_data
    \/ apply_mapping
    \/ prepare_data
    \/ calculate_compliance_score
    \/ get_irrigation_recommendations

Spec == Init /\ [][Next]_vars

\* the measurement lines of the temperature and the soil sensor whose date
\* exists
ReadingLines ==
    {l \in Lines : /\ l.shape = "measurement"
                   /\ l.id \in {"1001", "2001"}
                   /\ l.ts.form = "iso"}

\* the program run on longer logs of such lines, with the first configuration
InitReadings ==
    /\ map_json = [exists |-> TRUE, content |-> ConfigA]
    /\ data_file \in
          {[exists |-> TRUE, lines |-> l] : l \in SeqsUpTo(ReadingLines, MaxReadings)}
    /\ garden_config = EmptyDict
    /\ database = EmptyFrame(ImporterColumns)
    /\ logger = <<>>
    /\ pc = "new"
    /\ error = ""
    /\ df = EmptyFrame(<<>>)
    /\ expanded_df = EmptyFrame(<<>>)
    /\ call = [op |-> "", garden_id |-> "", time_window_hours |-> 0, now |-> 0]
    /\ compliance = NotCalled
    /\ recommendations = NoLines

SpecReadings == InitReadings /\ [][Next]_vars

----------------------------------------------------------------------------
(* Properties of the importer *)

Imported == pc \notin {"new", "import_raised"}

\* the date of the line exists
DateExists(line) == line.ts.form \in {"iso", "loose"}

\* the lines that are of one of the three shapes and carry a date that exists
Accepted(line) == line.shape # "none" /\ DateExists(line)

AcceptedLines == SelectSeq(data_file.lines, Accepted)

\* the value the grammar gives the record of a line
IsValueOf(v, line) ==
    CASE line.shape = "init" -> ~v.isnum /\ v.text = InitMarker
      [] line.shape = "measurement" ->
            v.isnum /\ RatEq(Rat(v.num, v.den), Rat(line.payload.num, line.payload.den))
      [] line.shape = "generic" -> ~v.isnum /\ v.text = line.payload.text
      [] OTHER -> FALSE

\* what a value cell holds: the Init marker, a number, or another text
Holds(v) ==
    {c \in {"Init", "number", "text"} :
        \/ c = "Init" /\ ~v.isnum /\ v.text = InitMarker
        \/ c = "number" /\ v.isnum /\ v.text = <<>>
        \/ c = "text" /\ ~v.isnum /\ v.text # InitMarker /\ v.text # <<>>}

\* C1: every line gives at most one record, with the value of the first shape
\* it matches in the order initialization, measurement, generic: 'Init' for
\* an initialization line, the number of a measurement line, the trailing
\* text only for a line that is neither; every record holds exactly one of
\* the Init marker, a number and a free text.
C1_FirstShapeDecidesValue ==
    Imported =>
        /\ Len(database.rows) <= Len(data_file.lines)
        /\ Len(database.rows) = Len(AcceptedLines)
        /\ \A i \in 1..Len(database.rows) :
              /\ i <= Len(AcceptedLines)
              /\ IsValueOf(database.rows[i].value, AcceptedLines[i])
              /\ Cardinality(Holds(database.rows[i].value)) = 1

\* an initialization line that the generic pattern matches too, then a
\* measurement line that the generic pattern matches too, both imported
C1_Witness ==
    /\ pc = "imported"
    /\ Len(data_file.lines) = 2
    /\ data_file.lines[1].shape = "init" /\ MatchGeneric(data_file.lines[1]).matched
    /\ data_file.lines[2].shape = "measurement"
    /\ MatchGeneric(data_file.lines[2]).matched
    /\ Len(database.rows) = 2
    /\ database.rows[1].value.text = InitMarker
    /\ database.rows[2].value.isnum

\* C2: a line of none of the shapes, or with a date that does not parse, adds
\* no record and does not stop import_data: the records are those of the
\* other lines, in the order of the lines.
C2_BadLinesSkippedInOrder ==
    /\ (pc # "new" /\ map_json.exists /\ data_file.exists) =>
            pc # "import_raised" /\ error = ""
    /\ Imported =>
        /\ Len(database.rows) = Len(AcceptedLines)
        /\ \A i \in 1..Len(database.rows) :
              /\ i <= Len(AcceptedLines)
              /\ database.rows[i].timestamp = AcceptedLines[i].ts.t
              /\ database.rows[i].level = AcceptedLines[i].level
              /\ database.rows[i].type = AcceptedLines[i].type
              /\ database.rows[i].sensor_id = AcceptedLines[i].id

\* a line with a date that does not exist, then a good line: one record
C2_Witness ==
    /\ pc = "imported"
    /\ Len(data_file.lines) = 2
    /\ data_file.lines[1].shape = "measurement" /\ ~DateExists(data_file.lines[1])
    /\ Accepted(data_file.lines[2])
    /\ Len(database.rows) = 1
    /\ database.rows[1].timestamp = data_file.lines[2].ts.t

\* C10: when the configuration file or the log file cannot be opened,
\* import_data raises FileNotFoundError to its caller and the database has
\* no record.
C10_MissingFileRaises ==
    (pc # "new" /\ (~map_json.exists \/ ~data_file.exists)) =>
        /\ pc = "import_raised"
        /\ error = "FileNotFoundError"
        /\ database.rows = <<>>

\* the configuration was read and the log file then could not be opened
C10_Witness ==
    /\ pc = "import_raised"
    /\ map_json.exists /\ ~data_file.exists
    /\ DOMAIN garden_config # {}
    /\ error = "FileNotFoundError"

----------------------------------------------------------------------------
(* Properties of the analyzer *)

Prepared == pc \in {"analyzed", "called"}
Called == pc = "called"
Scored == Called /\ compliance.status = "returned"

\* the crop profile of the zone of the last call
Profile ==
    garden_config.vegetables[garden_config.gardens[call.garden_id].vegetable_type]

WindowStart == call.now - call.time_window_hours
WindowEnd == call.now

ZoneReadings == expanded_df.rows

\* the ZoneReadings of the zone of the call and of kind k from windowStart on
Matching(k) ==
    {i \in 1..Len(ZoneReadings) :
        /\ ZoneReadings[i].garden_id = call.garden_id
        /\ ZoneReadings[i].sensor_type = k
        /\ ZoneReadings[i].timestamp >= WindowStart}

\* those of them with a number between min and max, the ends included
WithinRange(k) ==
    {i \in Matching(k) :
        /\ ZoneReadings[i].value.isnum
        /\ ZoneReadings[i].value.num >= Profile[k].min * ZoneReadings[i].value.den
        /\ ZoneReadings[i].value.num <= Profile[k].max * ZoneReadings[i].value.den}

Score(k) == compliance.result.individual_scores[k]
Detail(k) == compliance.result.details[k]

\* C3: a kind scored over N >= 1 matching readings, K of them with
\* min <= v <= max, has compliance 100*K/N, readings_count N and
\* in_range_count K.
C3_ComplianceIsShareInRange ==
    Scored =>
        \A k \in DOMAIN Profile :
            Matching(k) # {} =>
                LET N == Cardinality(Matching(k))
                    K == Cardinality(WithinRange(k))
                IN  /\ Score(k) # NoneCell
                    /\ RatEq(Score(k)[1], Rat(100 * K, N))
                    /\ Detail(k).readings_count = N
                    /\ Detail(k).in_range_count = K

\* two readings of a kind, one of them equal to min and counted, one outside
C3_Witness ==
    /\ Scored
    /\ \E k \in DOMAIN Profile :
          /\ Cardinality(Matching(k)) = 2
          /\ Detail(k).in_range_count = 1
          /\ RatEq(Score(k)[1], Rat(50, 1))
          /\ \E i \in WithinRange(k) :
                ZoneReadings[i].value.num = Profile[k].min * ZoneReadings[i].value.den

\* the list a sensor is mapped to, empty for no sensor and an unmapped sensor
MappedZones(sid) ==
    IF sid \in DOMAIN garden_config.sensor_garden_mapping
    THEN garden_config.sensor_garden_mapping[sid]
    ELSE <<>>

Occurrences(list, z) == Cardinality({i \in 1..Len(list) : list[i] = z})

\* the ZoneReadings that are copies of the Reading r in zone z
CopiesIn(r, z) ==
    Cardinality({j \in 1..Len(ZoneReadings) :
        /\ ZoneReadings[j].garden_id = z
        /\ \A c \in DOMAIN r : ZoneReadings[j][c] = r[c]})

\* the Readings equal to r (a log may hold a line twice)
Equals(r) == Cardinality({i \in 1..Len(database.rows) : database.rows[i] = r})

\* every ZoneReading carries the crop and the location of its zone, and its
\* zone is one its sensor is mapped to
ZoneReadingsWellFormed ==
    \A j \in 1..Len(ZoneReadings) :
        LET e == ZoneReadings[j]
        IN  /\ Occurrences(MappedZones(e.sensor_id), e.garden_id) > 0
            /\ e.vegetable_type = garden_config.gardens[e.garden_id].vegetable_type
            /\ e.location = garden_config.gardens[e.garden_id].location

C5_NoDataIsNotAnError ==
    Called =>
        /\ compliance.status = "returned"
        /\ \A k \in DOMAIN Profile :
              Matching(k) = {} =>
                  Score(k) = NoneCell /\ Detail(k).status = "No data"

RECURSIVE SumOfScores(_)
SumOfScores(kinds) ==
    IF kinds = {} THEN Rat(0, 1)
    ELSE LET k == CHOOSE x \in kinds : TRUE
         IN  RatAdd(Score(k)[1], SumOfScores(kinds \ {k}))

DefinedKinds == {k \in DOMAIN compliance.result.individual_scores : Score(k) # NoneCell}

\* C6: the overall score is the sum of the defined per-kind scores divided
\* by their number, and 0 when no kind has a score.
C6_OverallIsMeanOfDefined ==
    Scored =>
        IF DefinedKinds = {}
        THEN compliance.result.overall_score.num = 0
        ELSE RatEq(RatMulInt(compliance.result.overall_score,
                             Cardinality(DefinedKinds)),
                   SumOfScores(DefinedKinds))

\* one kind at 100, one at 0, one without data: an overall score of 50
C6_Witness ==
    /\ Scored
    /\ Cardinality(DefinedKinds) = 2
    /\ \E a, b \in DefinedKinds :
          /\ RatEq(Score(a)[1], Rat(100, 1))
          /\ RatEq(Score(b)[1], Rat(0, 1))
    /\ \E k \in DOMAIN Profile : Score(k) = NoneCell
    /\ RatEq(compliance.result.overall_score, Rat(50, 1))

\* the Readings of a sensor of kind k mapped to the zone of the call whose
\* value is the Init marker or a free text
TextReadings(k) ==
    {i \in 1..Len(database.rows) :
        /\ ~database.rows[i].value.isnum
        /\ database.rows[i].sensor_type = k
        /\ Occurrences(MappedZones(database.rows[i].sensor_id), call.garden_id) > 0}

\* the numbers among the matching ZoneReadings
NumericMatching(k) == {i \in Matching(k) : ZoneReadings[i].value.isnum}

\* C7: a record with the Init marker or a free text, of a sensor of a kind
\* of the profile mapped to the zone, does not make the call raise on it and
\* is counted in neither count.
C7_TextRecordsNotScored ==
    Called =>
        \A k \in DOMAIN Profile :
            TextReadings(k) # {} =>
                /\ compliance.error # "TypeError"
                /\ Scored =>
                      IF NumericMatching(k) = {} THEN Score(k) = NoneCell
                      ELSE /\ Detail(k).readings_count = Cardinality(NumericMatching(k))
                           /\ Detail(k).in_range_count = Cardinality(WithinRange(k))

\* what is counted for kind k
Counted(k) == IF Score(k) = NoneCell THEN 0 ELSE Detail(k).readings_count

\* C8: the readings counted for a kind are the ZoneReadings of the zone with
\* windowStart <= timestamp <= windowEnd, windowEnd the moment of the call.
C8_WindowBothEnds ==
    Scored =>
        \A k \in DOMAIN Profile :
            Counted(k) =
                Cardinality({i \in Matching(k) : ZoneReadings[i].timestamp <= WindowEnd})

\* the line the rule gives kind k
AdviceFor(k) ==
    IF Detail(k).avg_value = NoneCell THEN "no recent data"
    ELSE IF RatLt(Detail(k).avg_value[1], Rat(Detail(k).optimal_min, 1)) THEN "increase"
    ELSE IF RatLt(Rat(Detail(k).optimal_max, 1), Detail(k).avg_value[1]) THEN "decrease"
    ELSE "within optimal range"

\* C9: the list returned holds exactly one line for each kind of the result:
\* increase below min, decrease above max, within range between them, a
\* warning without data.
C9_OneLinePerKind ==
    (Called /\ recommendations.status = "returned") =>
        /\ Len(recommendations.lines) = Cardinality(DOMAIN compliance.result.details)
        /\ \A k \in DOMAIN compliance.result.details :
              \E i \in 1..Len(recommendations.lines) :
                  recommendations.lines[i] = Line(k, AdviceFor(k))

----------------------------------------------------------------------------
(* The optional [id=<digits>] group *)

Shapes == {"init", "measurement", "generic"}

\* the accepted lines of one shape without an [id=...] group
WithoutId(shape) ==
    SelectSeq(AcceptedLines, LAMBDA l : l.shape = shape /\ l.id = None)

\* the records of one shape without a sensor id
RowsWithoutId(shape) ==
    SelectSeq(database.rows,
        LAMBDA r : r.sensor_id = None /\
            CASE shape = "init" -> "Init" \in Holds(r.value)
              [] shape = "measurement" -> "number" \in Holds(r.value)
              [] OTHER -> "text" \in Holds(r.value))

----------------------------------------------------------------------------
(* Enrichment with name and model *)

\* C12: apply_mapping gives every record whose sensor_id is a key of
\* garden_config['sensors'] the name and model of that sensor and every other
\* record (no sensor_id, or one the collection lacks) None for both; it raises
\* nothing, keeps the number and order of the records and every other field.
C12_MappingEnrichesOnly ==
    [][pc = "imported" =>
        /\ pc' = "mapped"
        /\ error' = error /\ logger' = logger
        /\ Len(database'.rows) = Len(database.rows)
        /\ \A i \in 1..Len(database.rows) :
              LET before == database.rows[i]
                  after == database'.rows[i]
                  sensors == garden_config.sensors
              IN  /\ DOMAIN after = (DOMAIN before) \cup {"name", "model"}
                  /\ \A c \in DOMAIN before : after[c] = before[c]
                  /\ before.sensor_id \in DOMAIN sensors =>
                        /\ after.name = <<sensors[before.sensor_id].name>>
                        /\ after.model = <<sensors[before.sensor_id].model>>
                  /\ before.sensor_id \notin DOMAIN sensors =>
                        after.name = <<>> /\ after.model = <<>>]_vars

\* mapped: a record of a sensor the configuration lacks, then a record of a
\* listed sensor
C12_Witness ==
    /\ pc = "mapped"
    /\ Len(database.rows) = 2
    /\ database.rows[1].sensor_id = "2002"
    /\ "2002" \notin DOMAIN garden_config.sensors
    /\ database.rows[1].name = <<>> /\ database.rows[1].model = <<>>
    /\ database.rows[2].sensor_id = "2001"
    /\ database.rows[2].name = <<<<"Soil", "Moisture", "1">>>>
    /\ database.rows[2].model = <<"SoilSense">>

----------------------------------------------------------------------------
(* Skipped lines *)

\* what the importer keeps of the lines it skipped: it has no counter, the
\* calls of logger.error are its only trace of a line without a record
SkipCount == Len(logger)

\* the lines of the log that produced no record
SkippedLines == Len(data_file.lines) - Len(database.rows)

\* C13: after a log is ingested, the count of skipped lines that the importer
\* exposes equals the number of lines that produced no record (one more for
\* each unparseable line, none for a parsed line).
C13_SkipCountExposed ==
    Imported => SkipCount = SkippedLines

----------------------------------------------------------------------------
(* Status tier and mean of a kind *)

RECURSIVE SumOfValues(_)
\* the sum of the values of a set of ZoneReadings
SumOfValues(rows) ==
    IF rows = {} THEN Rat(0, 1)
    ELSE LET i == CHOOSE x \in rows : TRUE
         IN  RatAdd(Rat(ZoneReadings[i].value.num, ZoneReadings[i].value.den),
                    SumOfValues(rows \ {i}))

\* the tier of a score s = n/d
Tier(s) ==
    IF s.num >= 80 * s.den THEN "Good"
    ELSE IF s.num >= 60 * s.den THEN "Needs Attention"
    ELSE "Poor"

\* C14: for every kind with a score s, the status of the detail is 'Good'
\* when s >= 80, 'Needs Attention' when 60 <= s < 80 and 'Poor' when s < 60,
\* and avg_value is the sum of all matching values, in range or not, divided
\* by their number.
C14_StatusTierAndMean ==
    Scored =>
        \A k \in DefinedKinds :
            /\ Detail(k).status = Tier(Score(k)[1])
            /\ Detail(k).status \in {"Good", "Needs Attention", "Poor"}
            /\ Matching(k) # {}
            /\ Detail(k).avg_value # NoneCell
            /\ RatEq(RatMulInt(Detail(k).avg_value[1], Cardinality(Matching(k))),
                     SumOfValues(Matching(k)))

\* moisture 50 and 80 against [40, 70]: 50%, 'Poor', mean 65; in the same
\* call a temperature in range: 100%, 'Good'
C14_Witness ==
    /\ Scored
    /\ "temperature" \in DefinedKinds
    /\ RatEq(Score("temperature")[1], Rat(100, 1))
    /\ Detail("temperature").status = "Good"
    /\ "moisture" \in DefinedKinds
    /\ Profile["moisture"] = Range(40, 70)
    /\ Cardinality(Matching("moisture")) = 2
    /\ \E i, j \in Matching("moisture") :
          /\ RatEq(Rat(ZoneReadings[i].value.num, ZoneReadings[i].value.den), Rat(50, 1))
          /\ RatEq(Rat(ZoneReadings[j].value.num, ZoneReadings[j].value.den), Rat(80, 1))
    /\ RatEq(Score("moisture")[1], Rat(50, 1))
    /\ Detail("moisture").status = "Poor"
    /\ RatEq(Detail("moisture").avg_value[1], Rat(65, 1))

\* two of three readings in range: 'Needs Attention'
C14_MiddleTier ==
    /\ Scored
    /\ \E k \in DefinedKinds :
          /\ Cardinality(Matching(k)) = 3
          /\ Cardinality(WithinRange(k)) = 2
          /\ Detail(k).status = "Needs Attention"

----------------------------------------------------------------------------
(* The kind of a sensor *)

KindWords == <<"Temperature", "Moisture", "Light", "Humidity", "Pump">>
KindNames == <<"temperature", "moisture", "light", "humidity", "pump">>

\* the kind of the first word of KindWords that the name contains, and
\* otherwise for a name that contains none
FirstMatch(name, otherwise) ==
    LET found == {i \in 1..Len(KindWords) : Contains(name, KindWords[i])}
    IN  IF found = {} THEN otherwise
        ELSE KindNames[CHOOSE i \in found : \A j \in found : i <= j]

\* the ZoneReadings of the zone of the call, from windowStart on, of a
\* sensor of the configuration whose name gives kind k
OfSensorsNamed(k, otherwise) ==
    {i \in 1..Len(ZoneReadings) :
        /\ ZoneReadings[i].garden_id = call.garden_id
        /\ ZoneReadings[i].timestamp >= WindowStart
        /\ ZoneReadings[i].sensor_id \in DOMAIN garden_config.sensors
        /\ FirstMatch(garden_config.sensors[ZoneReadings[i].sensor_id].name,
                      otherwise) = k}

\* every record of a sensor of the configuration has the kind its name gives,
\* and a score counts the readings of the sensors of its kind only
KindsFollowNames(otherwise) ==
    /\ Prepared =>
          \A i \in 1..Len(database.rows) :
              LET r == database.rows[i]
              IN  r.sensor_id \in DOMAIN garden_config.sensors =>
                    r.sensor_type =
                        FirstMatch(garden_config.sensors[r.sensor_id].name, otherwise)
    /\ Scored =>
          \A k \in DOMAIN Profile :
              Counted(k) = Cardinality(OfSensorsNamed(k, otherwise))

----------------------------------------------------------------------------
(* The importer's records after ingestion *)

\* Importer.run has returned
Ingested == pc \in {"mapped", "analyzed", "called"}

\* C16: once ingestion has produced the records, no later operation
\* (constructing the analyzer, zone expansion, scoring, recommendations)
\* changes the importer's record set: the same records in the same order,
\* no field added, removed or changed.
C16_ReadingsNeverMutated ==
    [][Ingested => database' = database]_vars

----------------------------------------------------------------------------
(* The line 'All parameters are within optimal ranges!' *)

AllWithinLine == Line("all", "all within optimal ranges")

\* the mean of the matching values of kind k lies between min and max
MeanWithinRange(k) ==
    LET N == Cardinality(Matching(k))
        sum == SumOfValues(Matching(k))
    IN  /\ RatLe(Rat(Profile[k].min * N, 1), sum)
        /\ RatLe(sum, Rat(Profile[k].max * N, 1))

\* C17: the list get_irrigation_recommendations returns is never empty, and
\* it holds the line 'All parameters are within optimal ranges!' only when
\* every kind of the crop profile of the zone has data and a mean that is
\* neither below its min nor above its max.
C17_AllWithinOnlyWhenTrue ==
    (Called /\ recommendations.status = "returned") =>
        /\ Len(recommendations.lines) > 0
        /\ (\E i \in 1..Len(recommendations.lines) :
                recommendations.lines[i] = AllWithinLine) =>
              \A k \in DOMAIN Profile :
                  Matching(k) # {} /\ MeanWithinRange(k)

====
